---- MODULE Spec2Model ----
(***************************************************************************)
(* Model of the document ingestion pipeline of the vector-uploader         *)
(* backend: the files / chunks / embeddings tables, the SQLAlchemy session *)
(* (pending transaction, commit, failure state) each request works with,   *)
(* the request handlers that trigger ingestion (upload, process, sync      *)
(* process, reprocess) and the step-by-step runs of process_file,          *)
(* re_process_file and process_file_sync_endpoint.                         *)
(*                                                                         *)
(* A text is a sequence of words; a segment produced by the chunker is a   *)
(* sequence of words too (the words joined by single blanks).  One word is *)
(* one token.                                                              *)
(***************************************************************************)
EXTENDS Integers, Sequences, FiniteSets, TLC

VARIABLES
    files,       \* committed table files: document -> row (or NoFile)
    chunks,      \* committed table chunks: set of rows
    embeddings,  \* committed table embeddings: set of rows
    runs,        \* per worker slot: the ingestion run it executes or executed last
    produced,    \* per document: rows the latest run on it has written in its session
    nreq,        \* requests served so far (also numbers the runs)
    nfaults,     \* store failures injected so far
    use_mock,    \* embedding provider: the module's USE_MOCK_EMBEDDINGS flag
    rng,         \* embedding provider: state of the process-wide random generator
    first_call,  \* embedding provider: the first embedding call and its result
    last_call,   \* embedding provider: the latest embedding call and its result
    users,       \* committed table users: user -> row
    query_logs,  \* committed table query_logs: the rows in order of insertion
    reply,       \* the latest response of a user, admin, chunk or query endpoint
    file_path,   \* column file_path of table files: document -> path
    uploads_dir, \* the upload directory: the stored files and whose bytes they hold
    clock        \* the server's wall clock, in seconds

\* state of the ingestion pipeline and state of the embedding provider
pipeline_vars == <<files, chunks, embeddings, runs, produced, nreq, nfaults>>
provider_vars == <<use_mock, rng, first_call, last_call>>
\* state of the accounts and the query log, and of the upload directory
access_vars == <<users, query_logs, reply>>
storage_vars == <<file_path, uploads_dir, clock>>
vars == <<files, chunks, embeddings, runs, produced, nreq, nfaults,
          use_mock, rng, first_call, last_call,
          users, query_logs, reply, file_path, uploads_dir, clock>>

(***************************************************************************)
(* Bounds of the model.                                                    *)
(***************************************************************************)
MaxRequests == 3      \* requests in one behaviour
MaxFaults == 1        \* store failures in one behaviour
ChunkSize == 3        \* tokens per chunk (stands for the default of 512)
ChunkOverlap == 1     \* tokens of overlap (stands for the default of 50)

\* The documents and the worker slots of a behaviour are fixed by its initial
\* state: one document and one server process, or two of either.
OneDoc == {"d1"}
TwoDocs == {"d1", "d2"}
OneSlot == {"t1"}
TwoSlots == {"t1", "t2"}
Docs == DOMAIN files
Slots == DOMAIN runs
\* parser libraries whose import may succeed or fail in a deployment
Libs == {"PyPDF2", "docx"}

NoFile == [status |-> "absent", ext |-> "", disk |-> "", text |-> <<>>]

allowed_types == {"application/pdf", "text/plain",
                  "application/vnd.openxmlformats-officedocument.wordprocessingml.document",
                  "application/msword"}

(***************************************************************************)
(* The uploads the model draws from: filename extension, content type as   *)
(* detected from the first bytes, state of the stored file when it is read *)
(* back ("ok", "corrupt": the parser raises on it, "unreadable": opening   *)
(* it raises), and the text the file holds.                                *)
(***************************************************************************)
Uploads ==
    { [ext |-> ".txt", ctype |-> "text/plain", disk |-> "ok",
       text |-> <<"hello", "world">>],
      [ext |-> ".txt", ctype |-> "text/plain", disk |-> "ok",
       text |-> <<"a", "b", "c", "d", "e", "f", "g">>],
      [ext |-> ".txt", ctype |-> "text/plain", disk |-> "ok",
       text |-> <<"Error:", "disk", "full">>],
      [ext |-> ".txt", ctype |-> "text/plain", disk |-> "unreadable",
       text |-> <<"hello", "world">>],
      [ext |-> ".pdf", ctype |-> "application/pdf", disk |-> "ok",
       text |-> <<>>],
      [ext |-> ".pdf", ctype |-> "application/pdf", disk |-> "corrupt",
       text |-> <<>>],
      [ext |-> ".docx",
       ctype |-> "application/vnd.openxmlformats-officedocument.wordprocessingml.document",
       disk |-> "ok",
       text |-> <<"p1", "p2", "p3", "p4">>],
      [ext |-> ".xyz", ctype |-> "text/plain", disk |-> "ok",
       text |-> <<"hello", "world">>],
      [ext |-> ".png", ctype |-> "image/png", disk |-> "ok",
       text |-> <<>>] }

(***************************************************************************)
(* Text extraction.  The result is [raised, text]: raised when the call    *)
(* lets an exception escape, else the string it returns.                   *)
(***************************************************************************)
MsgNoPdfLib == <<"Error:", "PDF", "processing", "requires", "PyPDF2.">>
MsgPdfFailed == <<"Error", "extracting", "text", "from", "PDF:">>
MsgNoDocxLib == <<"Error:", "DOCX", "processing", "requires", "python-docx.">>
MsgDocxFailed == <<"Error", "extracting", "text", "from", "DOCX:">>
MsgUnsupported(ext) == <<"Error:", "Unsupported", "file", "type", ext>>

Returned(t) == [raised |-> FALSE, text |-> t]
Raised == [raised |-> TRUE, text |-> <<>>]

extract_text_from_file(ext, disk, body, libs) ==
    IF ext = ".txt"
    THEN IF disk = "unreadable" THEN Raised ELSE Returned(body)
    ELSE IF ext = ".pdf"
    THEN IF "PyPDF2" \notin libs THEN Returned(MsgNoPdfLib)
         ELSE IF disk # "ok" THEN Returned(MsgPdfFailed)
         ELSE Returned(body)
    ELSE IF ext \in {".docx", ".doc"}
    THEN IF "docx" \notin libs THEN Returned(MsgNoDocxLib)
         ELSE IF disk # "ok" THEN Returned(MsgDocxFailed)
         ELSE Returned(body)
    ELSE Returned(MsgUnsupported(ext))

\* text.startswith("Error:"): of the words of this model only "Error:" itself
\* begins with these six characters.
StartsWithError(text) == Len(text) > 0 /\ text[1] = "Error:"

\* Whether the file could be converted to text at all: supported type,
\* parser importable, content the parser accepts, file readable.
ExtractionFailed(ext, disk, libs) ==
    \/ ext \notin {".txt", ".pdf", ".docx", ".doc"}
    \/ ext = ".txt" /\ disk = "unreadable"
    \/ ext = ".pdf" /\ ("PyPDF2" \notin libs \/ disk # "ok")
    \/ ext \in {".docx", ".doc"} /\ ("docx" \notin libs \/ disk # "ok")

ExtractOutcome(f, libs) ==
    IF ExtractionFailed(f.ext, f.disk, libs) THEN "failed" ELSE "ok"

(***************************************************************************)
(* Token counting and chunking.                                            *)
(***************************************************************************)
count_tokens(text) == Len(text)

\* The splitter drops leading pieces of the current window until what is
\* left fits the overlap and leaves room for the next piece.
RECURSIVE DropToOverlap(_, _, _)
DropToOverlap(cur, size, overlap) ==
    IF count_tokens(cur) > overlap
       \/ (count_tokens(cur) + 1 > size /\ count_tokens(cur) > 0)
    THEN DropToOverlap(Tail(cur), size, overlap)
    ELSE cur

\* The splitter merges the word-level pieces greedily into windows of at
\* most `size` tokens, consecutive windows sharing up to `overlap` tokens.
RECURSIVE MergeSplits(_, _, _, _, _)
MergeSplits(splits, cur, docs, size, overlap) ==
    IF splits = <<>>
    THEN IF cur = <<>> THEN docs ELSE Append(docs, cur)
    ELSE IF count_tokens(cur) + 1 > size /\ cur # <<>>
    THEN MergeSplits(Tail(splits),
                     Append(DropToOverlap(cur, size, overlap), Head(splits)),
                     Append(docs, cur), size, overlap)
    ELSE MergeSplits(Tail(splits), Append(cur, Head(splits)), docs, size, overlap)

chunk_text(text, chunk_size, chunk_overlap) ==
    MergeSplits(text, <<>>, <<>>, chunk_size, chunk_overlap)

(***************************************************************************)
(* The session of a run: its pending transaction and whether it can still  *)
(* be used.  A failed statement or flush leaves the transaction unusable   *)
(* until a rollback, which none of the modelled functions issues.          *)
(***************************************************************************)
EmptyTx == [del_chunks |-> {}, del_embs |-> {}, ins_chunks |-> {},
            ins_embs |-> {}, status |-> "none"]

\* What a commit of transaction tx leaves in the tables (also what the
\* session itself sees before the commit).
ChunksAfter(tx) == {c \in chunks : c.id \notin tx.del_chunks} \cup tx.ins_chunks
EmbeddingsAfter(tx) ==
    {e \in embeddings : e.chunk_id \notin tx.del_embs} \cup tx.ins_embs
FilesAfter(tx, d) ==
    IF tx.status = "none" \/ files[d] = NoFile THEN files
    ELSE [files EXCEPT ![d].status = tx.status]

ChunkIdsOf(tx, d) == {c.id : c \in {x \in ChunksAfter(tx) : x.file_id = d}}

IdleRun == [op |-> "none", doc |-> "d1", pc |-> "idle", no |-> 0, tx |-> EmptyTx,
            sess |-> "ok", extract |-> "none", text |-> <<>>, segs |-> <<>>,
            i |-> 0, emb |-> <<>>,
            store_fault |-> FALSE, set_processing |-> FALSE,
            failed_after |-> FALSE, prior |-> {}, prior_embs |-> {},
            overlapped |-> FALSE]

EndPcs == {"idle", "done", "raised"}

Ended(r) == r.pc \in {"done", "raised"}

\* No ingestion run is in progress in any server process.
NoRunInProgress == \A s \in Slots : runs[s].pc \in EndPcs

NewRun(op, d, pc, tx) ==
    [IdleRun EXCEPT !.op = op, !.doc = d, !.pc = pc, !.no = nreq + 1,
                    !.set_processing = (tx.status = "Processing"),
                    !.overlapped = ~NoRunInProgress,
                    !.prior = ChunkIdsOf(tx, d),
                    !.prior_embs = {e.chunk_id : e \in {x \in embeddings :
                                        x.chunk_id \in ChunkIdsOf(tx, d)}}]

NoOutput == [chunks |-> {}, embs |-> {}]

\* The pipeline specifications take the embedding call as an input of the
\* embedding step and do not track the provider's own state.
NotTracked == "not tracked"
ProviderNotTracked ==
    /\ use_mock = NotTracked
    /\ rng = NotTracked
    /\ first_call = NotTracked
    /\ last_call = NotTracked

\* Nor do they track the accounts and the query log, or the upload directory.
AccessNotTracked ==
    /\ users = NotTracked
    /\ query_logs = NotTracked
    /\ reply = NotTracked
StorageNotTracked ==
    /\ file_path = NotTracked
    /\ uploads_dir = NotTracked
    /\ clock = NotTracked

\* No document yet, no run yet, in `slots` server processes.
InitPipeline(docs, slots) ==
    /\ files = [d \in docs |-> NoFile]
    /\ chunks = {}
    /\ embeddings = {}
    /\ runs = [s \in slots |-> IdleRun]
    /\ produced = [d \in docs |-> NoOutput]
    /\ nreq = 0
    /\ nfaults = 0

Init ==
    /\ InitPipeline(OneDoc, OneSlot)
    /\ ProviderNotTracked
    /\ AccessNotTracked
    /\ StorageNotTracked

(***************************************************************************)
(* Request handlers.  Each runs to its response in one step and hands the  *)
(* ingestion to a background task that uses the request's session.         *)
(* process_file and re_process_file never suspend (their awaits reach no   *)
(* real suspension point and the store calls block), so a server process   *)
(* serves the next request only when its run has ended.                    *)
(***************************************************************************)
SetRun(s, r) == runs' = [runs EXCEPT ![s] = r]

Commit(tx, d) ==
    /\ files' = FilesAfter(tx, d)
    /\ chunks' = ChunksAfter(tx)
    /\ embeddings' = EmbeddingsAfter(tx)

StartRequest(s, d) ==
    /\ nreq < MaxRequests
    /\ runs[s].pc \in EndPcs
    /\ nreq' = nreq + 1
    /\ produced' = [produced EXCEPT ![d] = NoOutput]

\* POST /upload: the file row and the background task
AddFile(s, d, u) ==
    /\ StartRequest(s, d)
    /\ files[d] = NoFile
    /\ u.ctype \in allowed_types
    /\ files' = [files EXCEPT ![d] = [status |-> "Pending", ext |-> u.ext,
                                      disk |-> u.disk, text |-> u.text]]
    /\ SetRun(s, NewRun("process", d, "pf_query", EmptyTx))
    /\ UNCHANGED <<chunks, embeddings, nfaults>>

\* POST /upload
upload_file(s, d, u) ==
    /\ AddFile(s, d, u)
    /\ UNCHANGED provider_vars
    /\ UNCHANGED <<access_vars, storage_vars>>

\* POST /process/{file_id}.  The stored file is never removed in this model, so
\* the os.path.exists test of the handler passes.
process_file_endpoint(s, d) ==
    /\ StartRequest(s, d)
    /\ files[d] # NoFile
    /\ LET tx == [EmptyTx EXCEPT !.status = "Processing"] IN
        /\ Commit(tx, d)
        /\ SetRun(s, NewRun("process", d, "pf_query", tx))
    /\ UNCHANGED <<nfaults>>
    /\ UNCHANGED provider_vars
    /\ UNCHANGED <<access_vars, storage_vars>>

ReprocessRequestStatus == "Pending"

\* POST /files/{file_id}/reprocess
reprocess_file(s, d) ==
    /\ StartRequest(s, d)
    /\ files[d] # NoFile
    /\ LET tx == [EmptyTx EXCEPT !.status = ReprocessRequestStatus] IN
        /\ Commit(tx, d)
        /\ SetRun(s, NewRun("reprocess", d, "rp_query", tx))
    /\ UNCHANGED <<nfaults>>
    /\ UNCHANGED provider_vars
    /\ UNCHANGED <<access_vars, storage_vars>>

(***************************************************************************)
(* process_file, one action per step between two points where the store    *)
(* or the extraction can fail.                                             *)
(***************************************************************************)
\* An exception escaping process_file lands in the handler of the caller:
\* re_process_file's except block, or the background-task runner.
EscapePc(r) == IF r.op = "reprocess" /\ r.pc # "rp_except" THEN "rp_except" ELSE "raised"

\* lines 85-91: look the file up
PfQuery(s) ==
    LET r == runs[s] IN
    /\ r.pc = "pf_query"
    /\ SetRun(s, [r EXCEPT !.pc = IF files[r.doc] = NoFile THEN "done"
                                  ELSE "pf_processing"])
    /\ UNCHANGED <<files, chunks, embeddings, produced, nreq, nfaults>>
    /\ UNCHANGED provider_vars
    /\ UNCHANGED <<access_vars, storage_vars>>

\* lines 93-94: status Processing, commit
PfSetProcessing(s) ==
    LET r == runs[s]
        tx == [r.tx EXCEPT !.status = "Processing"] IN
    /\ r.pc = "pf_processing"
    /\ Commit(tx, r.doc)
    /\ SetRun(s, [r EXCEPT !.pc = "pf_delete", !.tx = EmptyTx,
                           !.set_processing = TRUE])
    /\ UNCHANGED <<produced, nreq, nfaults>>
    /\ UNCHANGED provider_vars
    /\ UNCHANGED <<access_vars, storage_vars>>

\* db.query(Chunk).filter(Chunk.file_id == file_id).delete()
DeleteNoChunks(tx, d) == tx
DeleteChunksOf(tx, d) ==
    [tx EXCEPT !.del_chunks = @ \cup {c.id : c \in {x \in chunks : x.file_id = d}},
               !.ins_chunks = {c \in @ : c.file_id # d}]

\* db.query(Embedding).filter(Embedding.chunk_id.in_(chunk_ids)).delete()
DeleteEmbeddingsOf(tx, ids) ==
    [tx EXCEPT !.del_embs = @ \cup ids,
               !.ins_embs = {e \in @ : e.chunk_id \notin ids}]

\* lines 97-109: delete the embeddings of the file's chunks, then the chunks
PfDeleteExisting(s) ==
    LET r == runs[s]
        chunk_ids == ChunkIdsOf(r.tx, r.doc)
        tx1 == IF chunk_ids # {} THEN DeleteEmbeddingsOf(r.tx, chunk_ids) ELSE r.tx IN
    /\ r.pc = "pf_delete"
    /\ SetRun(s, [r EXCEPT !.pc = "pf_extract", !.tx = DeleteChunksOf(tx1, r.doc)])
    /\ UNCHANGED <<files, chunks, embeddings, produced, nreq, nfaults>>
    /\ UNCHANGED provider_vars
    /\ UNCHANGED <<access_vars, storage_vars>>

\* lines 113-115: extract the text; an exception goes to the handler
PfExtract(s, libs) ==
    LET r == runs[s]
        f == files[r.doc]
        x == extract_text_from_file(f.ext, f.disk, f.text, libs) IN
    /\ r.pc = "pf_extract"
    /\ SetRun(s, IF x.raised
                 THEN [r EXCEPT !.pc = "pf_except", !.failed_after = r.set_processing,
                                !.extract = ExtractOutcome(f, libs)]
                 ELSE [r EXCEPT !.text = x.text, !.extract = ExtractOutcome(f, libs),
                                !.pc = IF StartsWithError(x.text)
                                       THEN "pf_extract_error" ELSE "pf_chunk"])
    /\ UNCHANGED <<files, chunks, embeddings, produced, nreq, nfaults>>
    /\ UNCHANGED provider_vars
    /\ UNCHANGED <<access_vars, storage_vars>>

\* lines 116-119: extraction reported an error: status Error, commit, return.
\* The commit carries the deletions of lines 97-109 with it.
PfExtractErrorKeepsChunks(s) ==
    LET r == runs[s] IN
    /\ r.pc = "pf_extract_error"
    /\ Commit([EmptyTx EXCEPT !.status = "Error"], r.doc)
    /\ SetRun(s, [r EXCEPT !.pc = "done", !.tx = EmptyTx])
    /\ UNCHANGED <<produced, nreq, nfaults>>
    /\ UNCHANGED provider_vars
    /\ UNCHANGED <<access_vars, storage_vars>>
PfExtractError(s) ==
    LET r == runs[s]
        tx == [r.tx EXCEPT !.status = "Error"] IN
    /\ r.pc = "pf_extract_error"
    /\ Commit(tx, r.doc)
    /\ SetRun(s, [r EXCEPT !.pc = "done", !.tx = EmptyTx])
    /\ UNCHANGED <<produced, nreq, nfaults>>
    /\ UNCHANGED provider_vars
    /\ UNCHANGED <<access_vars, storage_vars>>

\* The store refuses to delete a chunk row an embedding row still references
\* (embeddings.chunk_id is a foreign key to chunks.id).
ForeignKeyViolated(tx, ids) ==
    \E e \in EmbeddingsAfter(tx) : e.chunk_id \in ids

\* lines 125-133: chunk the text; delete and commit if chunks are still there
\* (chunks another run committed since the deletion above; their embeddings
\* are not deleted here)
PfChunk(s) ==
    LET r == runs[s]
        segs == chunk_text(r.text, ChunkSize, ChunkOverlap)
        chunk_count == Cardinality(ChunkIdsOf(r.tx, r.doc))
        next == [r EXCEPT !.segs = segs, !.i = 0,
                          !.pc = IF segs = <<>> THEN "pf_commit" ELSE "pf_add"] IN
    /\ r.pc = "pf_chunk"
    /\ IF chunk_count > 0 /\ ForeignKeyViolated(r.tx, ChunkIdsOf(r.tx, r.doc))
       THEN /\ SetRun(s, [next EXCEPT !.pc = "pf_except", !.sess = "broken",
                                      !.failed_after = TRUE])
            /\ UNCHANGED <<files, chunks, embeddings>>
       ELSE IF chunk_count > 0
       THEN /\ Commit(DeleteChunksOf(r.tx, r.doc), r.doc)
            /\ SetRun(s, [next EXCEPT !.tx = EmptyTx])
       ELSE /\ SetRun(s, next)
            /\ UNCHANGED <<files, chunks, embeddings>>
    /\ UNCHANGED <<produced, nreq, nfaults>>
    /\ UNCHANGED provider_vars
    /\ UNCHANGED <<access_vars, storage_vars>>

\* chunk_number=i + 1 for the i-th element of enumerate(chunks)
ChunkNumberFromZero(i) == i
ChunkNumber(i) == i + 1

\* lines 140-153: add the chunk row and flush it
PfAddChunk(s) ==
    LET r == runs[s]
        chunk_content == r.segs[r.i + 1]
        chunk == [id |-> <<r.no, r.i + 1>>, chunk_number |-> ChunkNumber(r.i),
                  text |-> chunk_content, token_count |-> count_tokens(chunk_content),
                  file_id |-> r.doc] IN
    /\ r.pc = "pf_add"
    /\ SetRun(s, [r EXCEPT !.pc = "pf_embed", !.tx.ins_chunks = @ \cup {chunk}])
    /\ produced' = [produced EXCEPT ![r.doc].chunks = @ \cup {chunk}]
    /\ UNCHANGED <<files, chunks, embeddings, nreq, nfaults>>
    /\ UNCHANGED provider_vars
    /\ UNCHANGED <<access_vars, storage_vars>>

EmbedOutcomes == {"vector", "none", "raise"}

\* lines 172-174: the embedding call raised: log, count, next chunk
AbortOnEmbeddingError(r) == [r EXCEPT !.pc = "pf_except", !.failed_after = TRUE]
OnEmbeddingError(r) ==
    [r EXCEPT !.i = @ + 1, !.pc = IF r.i + 1 < Len(r.segs) THEN "pf_add" ELSE "pf_commit"]

\* Embedding(id=uuid.uuid4(), chunk_id=chunk.id, ...): a fresh row for the
\* chunk just flushed
NewEmbeddingOfFirstChunk(r) ==
    [id |-> <<r.no, r.i + 1>>, chunk_id |-> <<r.no, 1>>,
     embedding_model |-> "text-embedding-ada-002"]
NewEmbedding(r) ==
    [id |-> <<r.no, r.i + 1>>, chunk_id |-> <<r.no, r.i + 1>>,
     embedding_model |-> "text-embedding-ada-002"]

\* lines 157-174: embed the chunk; add the embedding row if a vector came back
PfEmbed(s, outcome) ==
    LET r == runs[s]
        r1 == [r EXCEPT !.emb = Append(@, outcome)]
        embedding == NewEmbedding(r) IN
    /\ r.pc = "pf_embed"
    /\ IF outcome = "vector"
       THEN /\ SetRun(s, [r1 EXCEPT !.i = @ + 1, !.tx.ins_embs = @ \cup {embedding},
                                    !.pc = IF r.i + 1 < Len(r.segs)
                                           THEN "pf_add" ELSE "pf_commit"])
            /\ produced' = [produced EXCEPT ![r.doc].embs = @ \cup {embedding}]
       ELSE /\ SetRun(s, IF outcome = "raise" THEN OnEmbeddingError(r1)
                         ELSE [r1 EXCEPT !.i = @ + 1,
                                         !.pc = IF r.i + 1 < Len(r.segs)
                                                THEN "pf_add" ELSE "pf_commit"])
            /\ UNCHANGED produced
    /\ UNCHANGED <<files, chunks, embeddings, nreq, nfaults>>
    /\ UNCHANGED provider_vars
    /\ UNCHANGED <<access_vars, storage_vars>>

\* line 177: commit the chunks and embeddings
PfCommit(s) ==
    LET r == runs[s] IN
    /\ r.pc = "pf_commit"
    /\ Commit(r.tx, r.doc)
    /\ SetRun(s, [r EXCEPT !.pc = "pf_embedded", !.tx = EmptyTx])
    /\ UNCHANGED <<produced, nreq, nfaults>>
    /\ UNCHANGED provider_vars
    /\ UNCHANGED <<access_vars, storage_vars>>

PfFinalStatusPending == "Pending"
PfFinalStatus == "Embedded"

\* lines 181-182: status Embedded, commit
PfSetEmbedded(s) ==
    LET r == runs[s]
        tx == [r.tx EXCEPT !.status = PfFinalStatus] IN
    /\ r.pc = "pf_embedded"
    /\ Commit(tx, r.doc)
    /\ SetRun(s, [r EXCEPT !.pc = "done", !.tx = EmptyTx])
    /\ UNCHANGED <<produced, nreq, nfaults>>
    /\ UNCHANGED provider_vars
    /\ UNCHANGED <<access_vars, storage_vars>>

HandlerStatusEmbedded == "Embedded"
HandlerStatus == "Error"

\* lines 185-192: the except block: look the file up, status Error, commit.
\* The session was not rolled back: if its transaction is unusable the
\* lookup raises and the exception leaves process_file.
PfExceptRollsBack(s) ==
    LET r == runs[s]
        tx == [EmptyTx EXCEPT !.status = HandlerStatus] IN
    /\ r.pc = "pf_except"
    /\ IF r.sess = "broken"
       THEN /\ SetRun(s, [r EXCEPT !.pc = EscapePc(r), !.tx = EmptyTx])
            /\ UNCHANGED <<files, chunks, embeddings>>
       ELSE /\ Commit(tx, r.doc)
            /\ SetRun(s, [r EXCEPT !.pc = "done", !.tx = EmptyTx])
    /\ UNCHANGED <<produced, nreq, nfaults>>
    /\ UNCHANGED provider_vars
    /\ UNCHANGED <<access_vars, storage_vars>>
PfExcept(s) ==
    LET r == runs[s]
        tx == [r.tx EXCEPT !.status = HandlerStatus] IN
    /\ r.pc = "pf_except"
    /\ IF r.sess = "broken"
       THEN /\ SetRun(s, [r EXCEPT !.pc = EscapePc(r), !.tx = EmptyTx])
            /\ UNCHANGED <<files, chunks, embeddings>>
       ELSE /\ Commit(tx, r.doc)
            /\ SetRun(s, [r EXCEPT !.pc = "done", !.tx = EmptyTx])
    /\ UNCHANGED <<produced, nreq, nfaults>>
    /\ UNCHANGED provider_vars
    /\ UNCHANGED <<access_vars, storage_vars>>

(***************************************************************************)
(* re_process_file                                                         *)
(***************************************************************************)
\* lines 198-204: look the file up
RpQuery(s) ==
    LET r == runs[s] IN
    /\ r.pc = "rp_query"
    /\ SetRun(s, [r EXCEPT !.pc = IF files[r.doc] = NoFile THEN "done"
                                  ELSE "rp_delete"])
    /\ UNCHANGED <<files, chunks, embeddings, produced, nreq, nfaults>>
    /\ UNCHANGED provider_vars
    /\ UNCHANGED <<access_vars, storage_vars>>

\* lines 208-219: delete the embeddings of the file's chunks, then the chunks
RpDeleteExisting(s) ==
    LET r == runs[s]
        chunk_ids == ChunkIdsOf(r.tx, r.doc)
        tx1 == IF chunk_ids # {} THEN DeleteEmbeddingsOf(r.tx, chunk_ids) ELSE r.tx IN
    /\ r.pc = "rp_delete"
    /\ SetRun(s, [r EXCEPT !.pc = "rp_commit", !.tx = DeleteChunksOf(tx1, r.doc)])
    /\ UNCHANGED <<files, chunks, embeddings, produced, nreq, nfaults>>
    /\ UNCHANGED provider_vars
    /\ UNCHANGED <<access_vars, storage_vars>>

\* lines 220-224: commit the deletion, then call process_file
RpCommit(s) ==
    LET r == runs[s] IN
    /\ r.pc = "rp_commit"
    /\ Commit(r.tx, r.doc)
    /\ SetRun(s, [r EXCEPT !.pc = "pf_query", !.tx = EmptyTx])
    /\ UNCHANGED <<produced, nreq, nfaults>>
    /\ UNCHANGED provider_vars
    /\ UNCHANGED <<access_vars, storage_vars>>

\* lines 226-233: the except block of re_process_file, as in process_file
RpExcept(s) ==
    LET r == runs[s]
        tx == [r.tx EXCEPT !.status = "Error"] IN
    /\ r.pc = "rp_except"
    /\ IF r.sess = "broken"
       THEN /\ SetRun(s, [r EXCEPT !.pc = "raised", !.tx = EmptyTx])
            /\ UNCHANGED <<files, chunks, embeddings>>
       ELSE /\ Commit(tx, r.doc)
            /\ SetRun(s, [r EXCEPT !.pc = "done", !.tx = EmptyTx])
    /\ UNCHANGED <<produced, nreq, nfaults>>
    /\ UNCHANGED provider_vars
    /\ UNCHANGED <<access_vars, storage_vars>>

(***************************************************************************)
(* process_file_sync_endpoint: the request itself runs the ingestion, one  *)
(* action per stretch between two awaits that can fail.                    *)
(***************************************************************************)
\* lines 81-101: look the file up, status Processing, commit
process_file_sync_endpoint(s, d) ==
    /\ StartRequest(s, d)
    /\ files[d] # NoFile
    /\ LET tx == [EmptyTx EXCEPT !.status = "Processing"] IN
        /\ Commit(tx, d)
        /\ SetRun(s, NewRun("sync", d, "sy_extract", tx))
    /\ UNCHANGED nfaults
    /\ UNCHANGED provider_vars
    /\ UNCHANGED <<access_vars, storage_vars>>

\* lines 105-106: extract the text
SyExtract(s, libs) ==
    LET r == runs[s]
        f == files[r.doc]
        x == extract_text_from_file(f.ext, f.disk, f.text, libs) IN
    /\ r.pc = "sy_extract"
    /\ SetRun(s, IF x.raised
                 THEN [r EXCEPT !.pc = "sy_except", !.failed_after = TRUE,
                                !.extract = ExtractOutcome(f, libs)]
                 ELSE [r EXCEPT !.text = x.text, !.extract = ExtractOutcome(f, libs),
                                !.pc = IF StartsWithError(x.text)
                                       THEN "sy_extract_error" ELSE "sy_delete"])
    /\ UNCHANGED <<files, chunks, embeddings, produced, nreq, nfaults>>
    /\ UNCHANGED provider_vars
    /\ UNCHANGED <<access_vars, storage_vars>>

\* lines 107-116: status Error, commit, respond
SyExtractError(s) ==
    LET r == runs[s]
        tx == [r.tx EXCEPT !.status = "Error"] IN
    /\ r.pc = "sy_extract_error"
    /\ Commit(tx, r.doc)
    /\ SetRun(s, [r EXCEPT !.pc = "done", !.tx = EmptyTx])
    /\ UNCHANGED <<produced, nreq, nfaults>>
    /\ UNCHANGED provider_vars
    /\ UNCHANGED <<access_vars, storage_vars>>

\* lines 119-125: chunk the text, delete the file's chunks, commit
SyChunkAndClear(s) ==
    LET r == runs[s]
        segs == chunk_text(r.text, ChunkSize, ChunkOverlap) IN
    /\ r.pc = "sy_delete"
    /\ IF ForeignKeyViolated(r.tx, ChunkIdsOf(r.tx, r.doc))
       THEN /\ SetRun(s, [r EXCEPT !.segs = segs, !.pc = "sy_except",
                                   !.sess = "broken", !.failed_after = TRUE])
            /\ UNCHANGED <<files, chunks, embeddings>>
       ELSE /\ Commit(DeleteChunksOf(r.tx, r.doc), r.doc)
            /\ SetRun(s, [r EXCEPT !.segs = segs, !.pc = "sy_loop", !.tx = EmptyTx])
    /\ UNCHANGED <<produced, nreq, nfaults>>
    /\ UNCHANGED provider_vars
    /\ UNCHANGED <<access_vars, storage_vars>>

\* lines 128-135: the first pass of the loop calls UUID() without arguments,
\* which raises TypeError before any row is inserted; with no segment the
\* loop body is not entered.
SyLoop(s) ==
    LET r == runs[s] IN
    /\ r.pc = "sy_loop"
    /\ SetRun(s, IF r.segs # <<>>
                 THEN [r EXCEPT !.pc = "sy_except", !.failed_after = TRUE]
                 ELSE [r EXCEPT !.pc = "sy_final"])
    /\ UNCHANGED <<files, chunks, embeddings, produced, nreq, nfaults>>
    /\ UNCHANGED provider_vars
    /\ UNCHANGED <<access_vars, storage_vars>>

\* lines 163-177: final commit, status Embedded, commit, respond
SyFinal(s) ==
    LET r == runs[s]
        tx == [r.tx EXCEPT !.status = "Embedded"] IN
    /\ r.pc = "sy_final"
    /\ Commit(tx, r.doc)
    /\ SetRun(s, [r EXCEPT !.pc = "done", !.tx = EmptyTx])
    /\ UNCHANGED <<produced, nreq, nfaults>>
    /\ UNCHANGED provider_vars
    /\ UNCHANGED <<access_vars, storage_vars>>

\* lines 179-191: the except block: status Error, commit, respond.  In a
\* transaction the store has aborted the update raises and the request fails.
SyExcept(s) ==
    LET r == runs[s]
        tx == [r.tx EXCEPT !.status = "Error"] IN
    /\ r.pc = "sy_except"
    /\ IF r.sess = "broken"
       THEN /\ SetRun(s, [r EXCEPT !.pc = "raised", !.tx = EmptyTx])
            /\ UNCHANGED <<files, chunks, embeddings>>
       ELSE /\ Commit(tx, r.doc)
            /\ SetRun(s, [r EXCEPT !.pc = "done", !.tx = EmptyTx])
    /\ UNCHANGED <<produced, nreq, nfaults>>
    /\ UNCHANGED provider_vars
    /\ UNCHANGED <<access_vars, storage_vars>>

(***************************************************************************)
(* Failures of the store.  Any statement, flush or commit a step issues    *)
(* may be rejected (connection lost, constraint, timeout).  The exception  *)
(* goes to the enclosing except block; raised inside an except block it    *)
(* leaves the function.                                                    *)
(***************************************************************************)
PfBodyPcs == {"pf_query", "pf_processing", "pf_delete", "pf_extract_error",
              "pf_chunk", "pf_add", "pf_commit", "pf_embedded"}
RpBodyPcs == {"rp_query", "rp_delete", "rp_commit"}
SyBodyPcs == {"sy_extract_error", "sy_delete", "sy_final"}
ExceptPcs == {"pf_except", "rp_except", "sy_except"}

\* steps that issue a statement or a flush
StatementPcs == {"pf_query", "pf_delete", "pf_chunk", "pf_add", "rp_query",
                 "rp_delete", "sy_extract_error", "sy_delete", "sy_final"}
                \cup ExceptPcs
\* steps that commit
CommitPcs == {"pf_processing", "pf_extract_error", "pf_commit", "pf_embedded",
              "rp_commit", "sy_extract_error", "sy_delete", "sy_final"}
             \cup ExceptPcs

\* where control goes when the step at r.pc raises
RaiseTarget(r) ==
    IF r.pc \in PfBodyPcs THEN "pf_except"
    ELSE IF r.pc \in RpBodyPcs THEN "rp_except"
    ELSE IF r.pc \in SyBodyPcs THEN "sy_except"
    ELSE EscapePc(r)

Failed(r, sess, tx) ==
    [r EXCEPT !.pc = RaiseTarget(r), !.sess = sess, !.tx = tx, !.store_fault = TRUE,
              !.failed_after = @ \/ (r.set_processing /\ r.pc \notin ExceptPcs)]

\* A statement or flush fails: the transaction stays open but unusable.
StatementFails(s) ==
    LET r == runs[s] IN
    /\ nfaults < MaxFaults
    /\ r.pc \in StatementPcs
    /\ r.sess = "ok"
    /\ nfaults' = nfaults + 1
    /\ SetRun(s, Failed(r, "broken", IF RaiseTarget(r) = "raised" THEN EmptyTx ELSE r.tx))
    /\ UNCHANGED <<files, chunks, embeddings, produced, nreq>>
    /\ UNCHANGED provider_vars
    /\ UNCHANGED <<access_vars, storage_vars>>

\* A commit fails: the pending changes are lost; the session is usable again
\* when the failure was in the flush, unusable when the COMMIT itself failed.
CommitFails(s, sess) ==
    LET r == runs[s] IN
    /\ nfaults < MaxFaults
    /\ r.pc \in CommitPcs
    /\ r.sess = "ok"
    /\ nfaults' = nfaults + 1
    /\ SetRun(s, Failed(r, sess, EmptyTx))
    /\ UNCHANGED <<files, chunks, embeddings, produced, nreq>>
    /\ UNCHANGED provider_vars
    /\ UNCHANGED <<access_vars, storage_vars>>

Next ==
    \/ \E s \in Slots, d \in Docs, u \in Uploads : upload_file(s, d, u)
    \/ \E s \in Slots, d \in Docs : process_file_endpoint(s, d)
    \/ \E s \in Slots, d \in Docs : reprocess_file(s, d)
    \/ \E s \in Slots, d \in Docs : process_file_sync_endpoint(s, d)
    \/ \E s \in Slots : PfQuery(s)
    \/ \E s \in Slots : PfSetProcessing(s)
    \/ \E s \in Slots : PfDeleteExisting(s)
    \/ \E s \in Slots, libs \in SUBSET Libs : PfExtract(s, libs)
    \/ \E s \in Slots : PfExtractError(s)
    \/ \E s \in Slots : PfChunk(s)
    \/ \E s \in Slots : PfAddChunk(s)
    \/ \E s \in Slots, o \in EmbedOutcomes : PfEmbed(s, o)
    \/ \E s \in Slots : PfCommit(s)
    \/ \E s \in Slots : PfSetEmbedded(s)
    \/ \E s \in Slots : PfExcept(s)
    \/ \E s \in Slots : RpQuery(s)
    \/ \E s \in Slots : RpDeleteExisting(s)
    \/ \E s \in Slots : RpCommit(s)
    \/ \E s \in Slots : RpExcept(s)
    \/ \E s \in Slots, libs \in SUBSET Libs : SyExtract(s, libs)
    \/ \E s \in Slots : SyExtractError(s)
    \/ \E s \in Slots : SyChunkAndClear(s)
    \/ \E s \in Slots : SyLoop(s)
    \/ \E s \in Slots : SyFinal(s)
    \/ \E s \in Slots : SyExcept(s)
    \/ \E s \in Slots : StatementFails(s)
    \/ \E s \in Slots, sess \in {"ok", "broken"} : CommitFails(s, sess)

Spec == Init /\ [][Next]_vars

(***************************************************************************)
(* The same server process with DELETE /files/{file_id} among its          *)
(* requests.  The handler deletes the chunk rows of the file, then the     *)
(* file row, and commits; it issues no statement on the embeddings table.  *)
(* A deleted document can be uploaded again.                               *)
(***************************************************************************)
\* files.py lines 94-108: the rows
DeleteRows(s, d) ==
    LET chunk_ids == ChunkIdsOf(EmptyTx, d)
        tx == DeleteChunksOf(EmptyTx, d) IN
    /\ StartRequest(s, d)
    /\ files[d] # NoFile
    /\ IF ForeignKeyViolated(EmptyTx, chunk_ids)
       THEN /\ SetRun(s, [NewRun("delete", d, "raised", EmptyTx)
                              EXCEPT !.sess = "broken"])
            /\ UNCHANGED <<files, chunks, embeddings>>
       ELSE /\ chunks' = ChunksAfter(tx)
            /\ files' = [files EXCEPT ![d] = NoFile]
            /\ SetRun(s, NewRun("delete", d, "done", tx))
            /\ UNCHANGED embeddings
    /\ UNCHANGED nfaults

\* files.py lines 94-119
delete_file(s, d) ==
    /\ DeleteRows(s, d)
    /\ UNCHANGED provider_vars
    /\ UNCHANGED <<access_vars, storage_vars>>

NextDelete ==
    \/ Next
    \/ \E s \in Slots, d \in Docs : delete_file(s, d)

SpecDelete == Init /\ [][NextDelete]_vars

(***************************************************************************)
(* The same server process when a statement of the chunk loop other than   *)
(* the flush and the embedding call raises: count_tokens on the chunk text *)
(* (line 141) is outside the inner try, so its exception goes to the       *)
(* except block of process_file with the session still usable.             *)
(***************************************************************************)
\* line 141 raises in the pass for chunk r.i + 1
PfCountTokensRaises(s) ==
    LET r == runs[s] IN
    /\ r.pc = "pf_add"
    /\ SetRun(s, [r EXCEPT !.pc = "pf_except", !.failed_after = TRUE])
    /\ UNCHANGED <<files, chunks, embeddings, produced, nreq, nfaults>>
    /\ UNCHANGED provider_vars
    /\ UNCHANGED <<access_vars, storage_vars>>

NextLoop ==
    \/ Next
    \/ \E s \in Slots : PfCountTokensRaises(s)

SpecLoop == Init /\ [][NextLoop]_vars

(***************************************************************************)
(* Two server processes (uvicorn workers, or two instances of the service) *)
(* on one database.  Each process runs its process_file to the end before  *)
(* it serves its next request; the statements and commits of the two       *)
(* processes interleave, each statement seeing what is committed and what  *)
(* its own transaction changed.  A sync-process run, which does suspend at *)
(* its awaits, overlapping the requests and runs of its own process is an  *)
(* interleaving of this specification too.                                 *)
(***************************************************************************)
InitWorkers ==
    /\ InitPipeline(OneDoc, TwoSlots)
    /\ ProviderNotTracked
    /\ AccessNotTracked
    /\ StorageNotTracked

\* The uploads, parser libraries and embedding outcomes two overlapping runs
\* are explored with; the store does not fail.
WorkerUploads == {u \in Uploads : u.disk = "ok" /\ u.ext \in {".docx", ".pdf"}}
WorkerEmbedOutcomes == {"vector", "none"}

NextWorkers ==
    \/ \E s \in Slots, d \in Docs, u \in WorkerUploads : upload_file(s, d, u)
    \/ \E s \in Slots, d \in Docs : process_file_endpoint(s, d)
    \/ \E s \in Slots, d \in Docs : reprocess_file(s, d)
    \/ \E s \in Slots, d \in Docs : process_file_sync_endpoint(s, d)
    \/ \E s \in Slots : PfQuery(s)
    \/ \E s \in Slots : PfSetProcessing(s)
    \/ \E s \in Slots : PfDeleteExisting(s)
    \/ \E s \in Slots : PfExtract(s, Libs)
    \/ \E s \in Slots : PfChunk(s)
    \/ \E s \in Slots : PfAddChunk(s)
    \/ \E s \in Slots, o \in WorkerEmbedOutcomes : PfEmbed(s, o)
    \/ \E s \in Slots : PfCommit(s)
    \/ \E s \in Slots : PfSetEmbedded(s)
    \/ \E s \in Slots : PfExcept(s)
    \/ \E s \in Slots : RpQuery(s)
    \/ \E s \in Slots : RpDeleteExisting(s)
    \/ \E s \in Slots : RpCommit(s)
    \/ \E s \in Slots : RpExcept(s)
    \/ \E s \in Slots : SyExtract(s, Libs)
    \/ \E s \in Slots : SyChunkAndClear(s)
    \/ \E s \in Slots : SyLoop(s)
    \/ \E s \in Slots : SyFinal(s)
    \/ \E s \in Slots : SyExcept(s)

SpecWorkers == InitWorkers /\ [][NextWorkers]_vars

(***************************************************************************)
(* process_file and re_process_file side by side: two documents holding    *)
(* the same file in the same persisted state; process_file is called on    *)
(* the first, then re_process_file on the second with the same results of  *)
(* extraction and of the embedding calls.  The store does not fail.        *)
(***************************************************************************)
StartStatuses == {"Pending", "Processing", "Embedded", "Error"}

\* The segments an earlier run has stored for upload u ("full"), or nothing.
PriorSegments(u, kept) ==
    IF kept = "full" /\ u.disk = "ok" /\ u.ext \in {".txt", ".pdf", ".docx"}
       /\ ~StartsWithError(u.text)
    THEN chunk_text(u.text, ChunkSize, ChunkOverlap)
    ELSE <<>>

\* Rows of an earlier run on document d; its run number is negative, so the
\* ids differ from those of the runs to come and between the documents.
PriorRun(d) == IF d = "d1" THEN 0 - 1 ELSE 0 - 2
PriorChunks(d, segs) ==
    {[id |-> <<PriorRun(d), k>>, chunk_number |-> k, text |-> segs[k],
      token_count |-> count_tokens(segs[k]), file_id |-> d] : k \in 1..Len(segs)}
PriorEmbeddings(d, segs, embedded) ==
    {[id |-> <<PriorRun(d), k>>, chunk_id |-> <<PriorRun(d), k>>,
      embedding_model |-> "text-embedding-ada-002"] :
        k \in {j \in 1..Len(segs) : embedded = "all" \/ j = 1}}

InitTwin ==
    /\ \E u \in {x \in Uploads : x.ctype \in allowed_types},
          st \in StartStatuses, kept \in {"none", "full"}, embedded \in {"all", "first"} :
          LET segs == PriorSegments(u, kept) IN
          /\ st = "Embedded" => kept = "full"
          /\ files = [d \in TwoDocs |-> [status |-> st, ext |-> u.ext,
                                         disk |-> u.disk, text |-> u.text]]
          /\ chunks = UNION {PriorChunks(d, segs) : d \in TwoDocs}
          /\ embeddings = UNION {PriorEmbeddings(d, segs, embedded) : d \in TwoDocs}
    /\ runs = [s \in TwoSlots |-> IdleRun]
    /\ produced = [d \in TwoDocs |-> NoOutput]
    /\ nreq = 0
    /\ nfaults = 0
    /\ ProviderNotTracked
    /\ AccessNotTracked
    /\ StorageNotTracked

\* a call of coroutine function `op` on document d
TwinCall(s, op, d, pc) ==
    /\ runs[s].pc = "idle"
    /\ nreq' = nreq + 1
    /\ SetRun(s, NewRun(op, d, pc, EmptyTx))
    /\ UNCHANGED <<files, chunks, embeddings, produced, nfaults>>
    /\ UNCHANGED provider_vars
    /\ UNCHANGED <<access_vars, storage_vars>>

TwinProcess == TwinCall("t1", "process", "d1", "pf_query")

TwinReprocess ==
    /\ Ended(runs["t1"])
    /\ TwinCall("t2", "reprocess", "d2", "rp_query")

\* the second call reads the file as the first did
TwinExtract(s, libs) ==
    LET f == files[runs[s].doc]
        x == extract_text_from_file(f.ext, f.disk, f.text, libs) IN
    /\ s = "t2" => /\ ExtractOutcome(f, libs) = runs["t1"].extract
                   /\ x.text = runs["t1"].text
    /\ PfExtract(s, libs)

\* the embedding calls of the second call end as those of the first did
TwinEmbed(s, outcome) ==
    LET k == Len(runs[s].emb) + 1 IN
    /\ (s = "t2" /\ k <= Len(runs["t1"].emb)) => outcome = runs["t1"].emb[k]
    /\ PfEmbed(s, outcome)

NextTwin ==
    \/ TwinProcess
    \/ TwinReprocess
    \/ \E s \in Slots : PfQuery(s)
    \/ \E s \in Slots : PfSetProcessing(s)
    \/ \E s \in Slots : PfDeleteExisting(s)
    \/ \E s \in Slots, libs \in SUBSET Libs : TwinExtract(s, libs)
    \/ \E s \in Slots : PfExtractError(s)
    \/ \E s \in Slots : PfChunk(s)
    \/ \E s \in Slots : PfAddChunk(s)
    \/ \E s \in Slots, o \in EmbedOutcomes : TwinEmbed(s, o)
    \/ \E s \in Slots : PfCommit(s)
    \/ \E s \in Slots : PfSetEmbedded(s)
    \/ \E s \in Slots : PfExcept(s)
    \/ \E s \in Slots : RpQuery(s)
    \/ \E s \in Slots : RpDeleteExisting(s)
    \/ \E s \in Slots : RpCommit(s)

SpecTwin == InitTwin /\ [][NextTwin]_vars

(***************************************************************************)
(* The embedding provider: get_embedding and get_mock_embedding, the       *)
(* module flag USE_MOCK_EMBEDDINGS and the generator of module random,     *)
(* which the whole process shares.  A text is a sequence of characters.    *)
(* The generator is modelled by what determines its output: the seed it    *)
(* was last given and the number of values drawn since.  A vector is       *)
(* modelled by what determines its components: where they come from (the   *)
(* generator state they were drawn from, or the service and the text       *)
(* submitted), how many they are and whether they were normalized.         *)
(***************************************************************************)
MaxEmbedChars == 1    \* characters kept by the truncation (stands for 8000)
MaxOtherDraws == 1    \* values other code draws between two seedings
vector_size == 1536
ada_002_size == 1536

Chars == {"a", " "}
Texts == UNION {[1..n -> Chars] : n \in 0..(MaxEmbedChars + 1)}

\* str.strip(): without leading and trailing whitespace
RECURSIVE lstrip(_)
lstrip(text) == IF text # <<>> /\ Head(text) = " " THEN lstrip(Tail(text)) ELSE text
RECURSIVE rstrip(_)
rstrip(text) ==
    IF text # <<>> /\ text[Len(text)] = " "
    THEN rstrip(SubSeq(text, 1, Len(text) - 1)) ELSE text
strip_nothing(text) == text
strip(text) == rstrip(lstrip(text))

\* text[:8000]
Truncated(text) ==
    IF Len(text) > MaxEmbedChars THEN SubSeq(text, 1, MaxEmbedChars) ELSE text

OsSeed == <<"os">>
FreshGenerator == [seed |-> OsSeed, pos |-> 0]

\* random.seed(text)
keep_generator(g, text) == g
random_seed(g, text) == [seed |-> text, pos |-> 0]

\* n calls of random.uniform(-1, 1): the values, and the generator afterwards
Uniforms(g, n) == [source |-> "random", from |-> g, dim |-> n, normalized |-> FALSE]
Advanced(g, n) == [g EXCEPT !.pos = @ + n]

None == [source |-> "None", from |-> FreshGenerator, dim |-> 0, normalized |-> FALSE]

\* What a call leaves: whether it raised, the value returned, the generator
\* afterwards, the path taken and the text given to get_mock_embedding.
Outcome(raised, result, g, path, mock_arg) ==
    [raised |-> raised, result |-> result, rng |-> g, path |-> path,
     mock_arg |-> mock_arg]

get_mock_embedding(g, text) ==
    LET seeded == random_seed(g, text)
        mock_embedding == Uniforms(seeded, vector_size)
        normalized == [mock_embedding EXCEPT !.normalized = TRUE] IN
    [result |-> normalized, rng |-> Advanced(seeded, vector_size)]

\* openai.embeddings.create(model="text-embedding-ada-002", input=text)
\* .data[0].embedding: the service's vector for the text
LiveVector(text) ==
    [source |-> "text-embedding-ada-002", from |-> [seed |-> text, pos |-> 0],
     dim |-> ada_002_size, normalized |-> TRUE]

\* lines 118-123: any exception of the try block: log and return the mock
\* embedding of `text`, which the truncation has reassigned
OnLiveErrorReturnNone(g, text) == Outcome(FALSE, None, g, "fallback", text)
OnLiveError(g, text) ==
    LET mock == get_mock_embedding(g, text) IN
    Outcome(FALSE, mock.result, mock.rng, "fallback", text)

\* `live` is how the call of the service ends when it is made: "ok" or "fail"
get_embedding(g, text, mock_flag, live) ==
    IF text = <<>> \/ strip(text) = <<>>
    THEN Outcome(FALSE, None, g, "blank", <<>>)
    ELSE LET text1 == Truncated(text) IN
         IF mock_flag
         THEN LET mock_result == get_mock_embedding(g, text1) IN
              Outcome(FALSE, mock_result.result, mock_result.rng, "mock", text1)
         ELSE IF live = "ok"
         THEN Outcome(FALSE, LiveVector(text1), g, "live", <<>>)
         ELSE OnLiveError(g, text1)

\* The record kept of a call: its argument and what it left; the latest call
\* also keeps the seed of the generator it found.
CallRecord(text, out) ==
    [text |-> text, raised |-> out.raised, result |-> out.result, path |-> out.path,
     mock_arg |-> out.mock_arg]
LatestCallRecord(text, g, out) ==
    [text |-> text, raised |-> out.raised, result |-> out.result, path |-> out.path,
     mock_arg |-> out.mock_arg, seed_before |-> g.seed]
NoCall == CallRecord(<<>>, Outcome(FALSE, None, FreshGenerator, "none", <<>>))

\* The process starts with or without an API key; module random is seeded
\* from the operating system.
InitProvider ==
    /\ InitPipeline(OneDoc, OneSlot)
    /\ use_mock \in BOOLEAN
    /\ rng = FreshGenerator
    /\ first_call = NoCall
    /\ last_call = NoCall
    /\ AccessNotTracked
    /\ StorageNotTracked

\* How the call of the service can end for a text: it is made only without
\* the mock flag and for a text that is not blank.
LiveOutcomes(text) ==
    IF use_mock \/ strip(text) = <<>> THEN {"not called"} ELSE {"ok", "fail"}

\* await get_embedding(text), from the pipeline or the query endpoint
CallGetEmbedding(text, live) ==
    LET out == get_embedding(rng, text, use_mock, live)
        call == CallRecord(text, out) IN
    /\ rng.pos <= vector_size + MaxOtherDraws
    /\ rng' = out.rng
    /\ last_call' = LatestCallRecord(text, rng, out)
    /\ first_call' = IF first_call = NoCall THEN call ELSE first_call
    /\ UNCHANGED <<use_mock, pipeline_vars>>
    /\ UNCHANGED <<access_vars, storage_vars>>

\* other code of the process draws a value from module random
OtherRandomDraw ==
    /\ rng.pos < (IF rng.pos >= vector_size THEN vector_size ELSE 0) + MaxOtherDraws
    /\ rng' = Advanced(rng, 1)
    /\ UNCHANGED <<use_mock, first_call, last_call, pipeline_vars>>
    /\ UNCHANGED <<access_vars, storage_vars>>

\* other code of the process reseeds module random from the operating system
OtherRandomSeed ==
    /\ rng # FreshGenerator
    /\ rng' = FreshGenerator
    /\ UNCHANGED <<use_mock, first_call, last_call, pipeline_vars>>
    /\ UNCHANGED <<access_vars, storage_vars>>

NextProvider ==
    \/ \E text \in Texts : \E live \in LiveOutcomes(text) : CallGetEmbedding(text, live)
    \/ OtherRandomDraw
    \/ OtherRandomSeed

SpecProvider == InitProvider /\ [][NextProvider]_vars

(***************************************************************************)
(* Properties.                                                             *)
(***************************************************************************)
DocChunks(d) == {c \in chunks : c.file_id = d}
DocEmbeddings(d) == {e \in embeddings : \E c \in DocChunks(d) : c.id = e.chunk_id}
ChunkNumbers(d) == {c.chunk_number : c \in DocChunks(d)}
PipelineRun(r) == r.op \in {"process", "reprocess"}
AllVectors(r) == \A k \in 1..Len(r.emb) : r.emb[k] = "vector"
HasChunk(r, k) ==
    \E c \in chunks : /\ c.id = <<r.no, k>> /\ c.file_id = r.doc
                      /\ c.chunk_number = k /\ c.text = r.segs[k]
HasEmbedding(r, k) == \E e \in embeddings : e.chunk_id = <<r.no, k>>

StatusChange(d, from, to) == files[d].status = from /\ files'[d].status = to
RunEdges == {<<"Pending", "Processing">>, <<"Processing", "Embedded">>,
             <<"Processing", "Error">>}
RestartEdges == {<<"Embedded", "Processing">>, <<"Error", "Processing">>}

C2_ExtractionFailureEndsInError ==
    \A s \in Slots :
        LET r == runs[s] IN
        (PipelineRun(r) /\ Ended(r) /\ r.extract = "failed" /\ ~r.store_fault)
        => /\ files[r.doc].status = "Error"
           /\ produced[r.doc] = NoOutput

\* C3: once a step after the commit of Processing has failed, the run ends
\* with the committed status Error.
C3_FailureEndsInError ==
    \A s \in Slots :
        LET r == runs[s] IN
        (PipelineRun(r) /\ Ended(r) /\ r.failed_after)
        => files[r.doc].status = "Error"

\* C4: process_file and re_process_file never let an exception escape.
C4_NeverRaises ==
    \A s \in Slots : PipelineRun(runs[s]) => runs[s].pc # "raised"

\* C5: in a run the store did not fail, if the embedding call of some chunk
\* raised or returned None, every segment still has its chunk row, exactly the
\* chunks whose call returned a vector have an embedding, and the status is
\* Embedded.
C5_EmbeddingFailureNotFatal ==
    \A s \in Slots :
        LET r == runs[s] IN
        (PipelineRun(r) /\ Ended(r) /\ ~r.store_fault /\ ~AllVectors(r))
        => /\ r.pc = "done"
           /\ files[r.doc].status = "Embedded"
           /\ Len(r.emb) = Len(r.segs)
           /\ \A k \in 1..Len(r.segs) :
                 /\ HasChunk(r, k)
                 /\ HasEmbedding(r, k) <=> r.emb[k] = "vector"

\* The embedding call failed for a chunk that is not the last one.
C5_Witness ==
    \E s \in Slots :
        LET r == runs[s] IN
        /\ PipelineRun(r) /\ r.pc = "done" /\ ~r.store_fault
        /\ \E k \in 1..Len(r.emb) : /\ r.emb[k] # "vector" /\ k < Len(r.segs)
                                    /\ HasChunk(r, k) /\ ~HasEmbedding(r, k)
                                    /\ HasChunk(r, k + 1)
        /\ files[r.doc].status = "Embedded"

\* C6: after process_file ended with status Embedded on a document without
\* prior chunks, the document has exactly one chunk per segment of chunk_text,
\* numbered 1..N, chunk k holding segment k.
C6_FreshNumbering ==
    \A s \in Slots :
        LET r == runs[s]
            segments == chunk_text(r.text, ChunkSize, ChunkOverlap) IN
        (r.op = "process" /\ r.pc = "done" /\ r.prior = {}
            /\ files[r.doc].status = "Embedded")
        => /\ ChunkNumbers(r.doc) = 1..Len(segments)
           /\ Cardinality(DocChunks(r.doc)) = Len(segments)
           /\ \A c \in DocChunks(r.doc) : c.text = segments[c.chunk_number]

\* A first ingestion of a text of several segments has ended Embedded.
C6_Witness ==
    \E s \in Slots :
        LET r == runs[s] IN
        /\ r.op = "process" /\ r.pc = "done" /\ r.prior = {}
        /\ files[r.doc].status = "Embedded"
        /\ Len(r.segs) >= 2
        /\ Cardinality(DocChunks(r.doc)) = Len(r.segs)

\* C7: when the extraction succeeded, every embedding call returned a vector
\* and the store did not fail, the run ends with status Embedded, N chunks and
\* N embeddings, one per chunk.
C7_FullSuccess ==
    \A s \in Slots :
        LET r == runs[s]
            f == files[r.doc]
            N == Len(chunk_text(f.text, ChunkSize, ChunkOverlap)) IN
        (PipelineRun(r) /\ Ended(r) /\ r.extract = "ok" /\ AllVectors(r)
            /\ ~r.store_fault)
        => /\ f.status = "Embedded"
           /\ Cardinality(DocChunks(r.doc)) = N
           /\ Cardinality(DocEmbeddings(r.doc)) = N
           /\ \A c \in DocChunks(r.doc) :
                 Cardinality({e \in embeddings : e.chunk_id = c.id}) = 1

\* C8: after re_process_file returned, the store not having failed, on a
\* document that had chunks and embeddings: every embedding references an
\* existing chunk, no prior chunk or embedding is left, and the chunks are
\* numbered 1..N' for the N' segments of the new run.
C8_ReprocessReplaces ==
    \A s \in Slots :
        LET r == runs[s] IN
        (r.op = "reprocess" /\ r.pc = "done" /\ ~r.store_fault
            /\ r.prior # {} /\ r.prior_embs # {})
        => /\ \A e \in embeddings : \E c \in chunks : c.id = e.chunk_id
           /\ \A c \in chunks : c.id \notin r.prior
           /\ \A e \in embeddings : e.chunk_id \notin r.prior_embs
           /\ ChunkNumbers(r.doc) = 1..Len(r.segs)
           /\ Cardinality(DocChunks(r.doc)) = Len(r.segs)

\* A document with chunks and embeddings was reprocessed into several chunks.
C8_Witness ==
    \E s \in Slots :
        LET r == runs[s] IN
        /\ r.op = "reprocess" /\ r.pc = "done" /\ ~r.store_fault
        /\ r.prior # {} /\ r.prior_embs # {}
        /\ files[r.doc].status = "Embedded"
        /\ Len(r.segs) >= 2
        /\ DocEmbeddings(r.doc) # {}

C10_EndedRunIsTerminal ==
    \A s \in Slots :
        LET r == runs[s] IN
        (Ended(r) /\ r.set_processing)
        => files[r.doc].status \in {"Embedded", "Error"}

\* A run that has written Processing and not yet ended.
InProgressPcs == {"pf_delete", "pf_extract", "pf_extract_error", "pf_chunk", "pf_add",
                  "pf_embed", "pf_commit", "pf_embedded", "pf_except",
                  "sy_extract", "sy_extract_error", "sy_delete", "sy_loop", "sy_final",
                  "sy_except"}
\* The steps of the extract / chunk / embed loop.
IngestionPcs == {"pf_extract", "pf_chunk", "pf_add", "pf_embed",
                 "sy_extract", "sy_delete", "sy_loop"}
DuplicateNumbers(d) ==
    \E c1, c2 \in DocChunks(d) : c1 # c2 /\ c1.chunk_number = c2.chunk_number

\* C11: runs of two server processes on one document are not mutually
\* excluded (C11_Witness: their deletes and inserts interleave and the document
\* ends Embedded with duplicate chunk numbers); the chunks differ from the 1..N
\* of a single run only then: the latest run, when it started with no other run
\* in progress and ended with status Embedded, leaves exactly its chunks 1..N.
C11_RunAloneLeavesItsChunks ==
    \A s \in Slots :
        LET r == runs[s] IN
        (PipelineRun(r) /\ r.pc = "done" /\ r.no = nreq /\ ~r.overlapped
            /\ files[r.doc].status = "Embedded")
        => /\ ChunkNumbers(r.doc) = 1..Len(r.segs)
           /\ Cardinality(DocChunks(r.doc)) = Len(r.segs)
           /\ \A c \in DocChunks(r.doc) : c.id[1] = r.no

\* Two overlapping process / reprocess runs on one document have both ended,
\* the status is Embedded and the document holds the chunks of both runs.
C11_Witness ==
    \E s, t \in Slots :
        LET r == runs[s]
            q == runs[t] IN
        /\ s # t /\ r.doc = q.doc /\ q.overlapped
        /\ PipelineRun(r) /\ PipelineRun(q) /\ r.pc = "done" /\ q.pc = "done"
        /\ files[r.doc].status = "Embedded"
        /\ DuplicateNumbers(r.doc)
        /\ \E c1, c2 \in DocChunks(r.doc) : c1.id[1] = r.no /\ c2.id[1] = q.no
        /\ Cardinality(DocChunks(r.doc)) > Len(q.segs)

\* C12: while a run is between its write of Processing and its end, every
\* step that changes the document's committed status is a step of that run.
C12_StatusOwnedByRun ==
    [][\A s \in Slots :
          LET r == runs[s] IN
          (r.pc \in InProgressPcs /\ files'[r.doc].status # files[r.doc].status)
          => runs'[s] # runs[s]]_vars

\* Whether the response of the request that triggered run r has been sent:
\* the background task starts after the response; the sync endpoint responds
\* when its run has ended.
ResponseSent(r) == IF r.op = "sync" THEN r.pc \in {"done", "raised"} ELSE r.op # "none"

\* C13: whenever a run is in its extract / chunk / embed loop, the response of
\* the request that triggered it has been sent (stated for behaviours without
\* store failure).
C13_ResponseBeforeIngestion ==
    nfaults = 0
    => \A s \in Slots : runs[s].pc \in IngestionPcs => ResponseSent(runs[s])

\* C20: every committed chunk has at most one embedding row, whatever the
\* interleaving of the runs of two server processes.
C20_AtMostOneEmbeddingPerChunk ==
    \A c \in chunks : Cardinality({e \in embeddings : e.chunk_id = c.id}) <= 1

\* The chunks of two overlapping runs are committed side by side, chunks of
\* either run having their embedding.
C20_Witness ==
    \E c1, c2 \in chunks :
        /\ c1.id[1] # c2.id[1] /\ c1.file_id = c2.file_id
        /\ c1.chunk_number = 2 /\ c2.chunk_number = 2
        /\ \E e1, e2 \in embeddings : e1.chunk_id = c1.id /\ e2.chunk_id = c2.id

\* What is persisted for document d: per chunk its number, its text and
\* whether it has an embedding.
PersistedChunks(d) ==
    {[chunk_number |-> c.chunk_number, text |-> c.text,
      embedded |-> \E e \in embeddings : e.chunk_id = c.id] : c \in DocChunks(d)}

\* C14: called on the same persisted state with the same extraction and
\* embedding results, process_file and re_process_file end alike (returned or
\* raised) with the same status, the same chunk numbers and texts and the same
\* chunks embedded; and inside re_process_file the deletion of process_file
\* finds no chunk left to delete.
C14_ReprocessEqualsProcess ==
    LET p == runs["t1"]
        q == runs["t2"] IN
    /\ (Ended(p) /\ Ended(q) /\ p.op = "process" /\ q.op = "reprocess")
       => /\ p.pc = q.pc
          /\ files["d1"].status = files["d2"].status
          /\ PersistedChunks("d1") = PersistedChunks("d2")
          /\ Cardinality(DocChunks("d1")) = Cardinality(DocChunks("d2"))
    /\ \A s \in Slots :
          (runs[s].op = "reprocess" /\ runs[s].pc = "pf_delete")
          => ChunkIdsOf(runs[s].tx, runs[s].doc) = {}

\* Both calls have ended on documents that had chunks and embeddings:
\* Embedded with several new chunks, not all of them embedded.
C14_Witness ==
    LET p == runs["t1"]
        q == runs["t2"] IN
    /\ Ended(p) /\ Ended(q) /\ p.op = "process" /\ q.op = "reprocess"
    /\ p.prior_embs # {} /\ q.prior_embs # {}
    /\ files["d2"].status = "Embedded"
    /\ Cardinality(DocChunks("d2")) >= 2
    /\ \E c \in PersistedChunks("d2") : c.embedded
    /\ \E c \in PersistedChunks("d2") : ~c.embedded


(***************************************************************************)
(* Properties of the embedding provider, under SpecProvider.               *)
(***************************************************************************)
WhitespaceOnly(text) == \A i \in DOMAIN text : text[i] = " "
ThroughMock(call) == call.path \in {"mock", "fallback"}

C17_SamePrefixSameVector ==
    (/\ use_mock
     /\ first_call # NoCall
     /\ last_call # NoCall
     /\ Len(first_call.text) > MaxEmbedChars
     /\ Len(last_call.text) > MaxEmbedChars
     /\ Truncated(first_call.text) = Truncated(last_call.text))
    => /\ last_call.result = first_call.result
       /\ \A g \in {FreshGenerator, rng} :
              last_call.result
                  = get_embedding(g, Truncated(last_call.text), use_mock, "not called").result


\* C18: get_mock_embedding is a function of its text argument alone: two
\* calls with identical text return identical vectors, whichever other
\* embedding calls or other uses of the random-number generator happen in
\* between.
C18_MockIsFunctionOfText ==
    (/\ first_call # NoCall
     /\ last_call # NoCall
     /\ ThroughMock(first_call)
     /\ ThroughMock(last_call)
     /\ first_call.mock_arg = last_call.mock_arg)
    => last_call.result = first_call.result

\* two calls with the same argument, the later one on a generator that
\* something else has seeded in between
C18_Witness ==
    /\ first_call # NoCall
    /\ last_call # NoCall
    /\ ThroughMock(first_call)
    /\ ThroughMock(last_call)
    /\ first_call.text # last_call.text
    /\ first_call.mock_arg = last_call.mock_arg
    /\ last_call.seed_before # last_call.mock_arg
    /\ last_call.result.dim = vector_size


\* C19: a call to the deterministic embedding strategy changes no state
\* outside its return value: the shared random-number generator that other
\* code draws from is the same after the call as before it.
C19_MockLeavesGenerator ==
    [][(last_call' # last_call /\ ThroughMock(last_call')) => rng' = rng]_vars


(***************************************************************************)
(* Properties of the pipeline, continued.                                  *)
(***************************************************************************)
\* C22: POST /process/{file_id}/sync on a file whose extraction succeeds and
\* yields N >= 1 chunks persists chunks numbered 1..N with their embeddings,
\* replacing all prior chunks of the file, sets the status to Embedded and
\* returns status Embedded.
C22_SyncPersistsChunks ==
    \A s \in Slots :
        LET r == runs[s]
            N == Len(r.segs) IN
        (r.op = "sync" /\ Ended(r) /\ r.extract = "ok" /\ N >= 1 /\ nfaults = 0)
        => /\ r.pc = "done"
           /\ files[r.doc].status = "Embedded"
           /\ ChunkNumbers(r.doc) = 1..N
           /\ Cardinality(DocChunks(r.doc)) = N
           /\ \A c \in DocChunks(r.doc) :
                 c.id \notin r.prior /\ \E e \in embeddings : e.chunk_id = c.id


\* C23: under any sequence of upload, process, sync-process, reprocess and
\* delete_file operations every Embedding references an existing Chunk and
\* every Chunk references an existing File, and every operation that deletes
\* chunks has removed their embeddings first: no deletion of chunks is
\* refused by the store for embeddings that still reference them.
C23_ReferencesHold ==
    /\ \A e \in embeddings : \E c \in chunks : c.id = e.chunk_id
    /\ \A c \in chunks : files[c.file_id] # NoFile
    /\ \A s \in Slots :
           LET r == runs[s] IN
           ~(r.op = "delete" /\ r.pc = "raised" /\ r.prior_embs # {})


\* C24: when process_file ends in Error because the extraction failed, on a
\* document that had chunks and embeddings before, the document afterwards
\* has no chunk and no embedding: the deletion of the prior output is
\* committed together with the Error status.
C24_ExtractionErrorClearsOutput ==
    \A s \in Slots :
        LET r == runs[s] IN
        (/\ PipelineRun(r) /\ r.pc = "done" /\ ~r.store_fault
         /\ r.extract = "failed"
         /\ files[r.doc].status = "Error"
         /\ r.prior # {} /\ r.prior_embs # {})
        => /\ DocChunks(r.doc) = {}
           /\ DocEmbeddings(r.doc) = {}
           /\ \A e \in embeddings : e.chunk_id \notin r.prior

\* a process run on a document with chunks and embeddings has ended in Error
\* on a failed extraction
C24_Witness ==
    \E s \in Slots :
        LET r == runs[s] IN
        /\ r.op = "process" /\ r.pc = "done" /\ ~r.store_fault
        /\ r.extract = "failed"
        /\ files[r.doc].status = "Error"
        /\ Cardinality(r.prior) >= 2 /\ r.prior_embs # {}
        /\ DocChunks(r.doc) = {}
        /\ embeddings = {}


\* C25: the outcome of ingestion does not depend on the extracted text
\* resembling an error message: a .txt document whose content begins with
\* 'Error:' is read verbatim, chunked and embedded like any other document and
\* ends with status Embedded.
C25_ErrorLikeTextIsIngested ==
    \A s \in Slots :
        LET r == runs[s]
            f == files[r.doc]
            segs == chunk_text(f.text, ChunkSize, ChunkOverlap) IN
        (/\ r.op \in {"process", "reprocess", "sync"} /\ Ended(r) /\ nfaults = 0
         /\ f.ext = ".txt" /\ f.disk = "ok" /\ StartsWithError(f.text))
        => /\ f.status = "Embedded"
           /\ {c.text : c \in DocChunks(r.doc)} = {segs[k] : k \in 1..Len(segs)}


MaxQueries == 1       \* rows of table query_logs in one behaviour
MaxLimit == 2         \* largest `limit` of a query request

Users == {"u1", "u2"}
\* File(user_id=current_user.id): the account that uploads document d
Owner(d) == IF d = "d1" THEN "u1" ELSE "u2"

\* create_admin_user.py creates the first account as admin; POST /auth/register
\* creates the second without admin right
InitUsers == [u \in Users |-> [is_admin |-> (u = "u1")]]

NoValue == "None"
\* The response of an endpoint to caller `to`: status code, the chunks of the
\* body in order, and the request it answers.
Response(to, endpoint, code, request, body) ==
    [to |-> to, is_admin |-> users[to].is_admin,
     endpoint |-> endpoint, code |-> code, request |-> request, chunks |-> body]
NoRequest == [user_id |-> NoValue, is_admin |-> NoValue, query |-> <<>>, limit |-> 0]
NoReply == [to |-> "u1", is_admin |-> FALSE, endpoint |-> "none",
            code |-> 0, request |-> NoRequest, chunks |-> <<>>]

\* the uploads of this specification: text files the pipeline ingests in full
AccessUploads == {u \in Uploads : /\ u.ext = ".txt"
                                  /\ u.disk = "ok"
                                  /\ ~StartsWithError(u.text)}

\* Each document is absent, or uploaded and ingested in full by an earlier
\* run, d2 before d1.
InitAccess ==
    /\ \E ingested \in [TwoDocs -> AccessUploads \cup {NoFile}] :
          LET segs(d) == chunk_text(ingested[d].text, ChunkSize, ChunkOverlap) IN
          /\ files = [d \in TwoDocs |->
                         IF ingested[d] = NoFile THEN NoFile
                         ELSE [status |-> "Embedded", ext |-> ingested[d].ext,
                               disk |-> ingested[d].disk, text |-> ingested[d].text]]
          /\ chunks = UNION {PriorChunks(d, segs(d)) : d \in TwoDocs}
          /\ embeddings = UNION {PriorEmbeddings(d, segs(d), "all") : d \in TwoDocs}
    /\ runs = [s \in OneSlot |-> IdleRun]
    /\ produced = [d \in TwoDocs |-> NoOutput]
    /\ nreq = 0
    /\ nfaults = 0
    /\ ProviderNotTracked
    /\ StorageNotTracked
    /\ users = InitUsers
    /\ query_logs = <<>>
    /\ reply = NoReply

\* a request outside the ingestion pipeline: it starts no run
ServeRequest ==
    /\ NoRunInProgress
    /\ UNCHANGED pipeline_vars
    /\ UNCHANGED provider_vars
    /\ UNCHANGED storage_vars

\* admin.py lines 17-24
get_current_admin_user(current_user) == users[current_user].is_admin

\* PUT /admin/users/{user_id}/toggle-admin
toggle_admin_status(current_admin, user_id) ==
    LET request == [NoRequest EXCEPT !.user_id = user_id] IN
    /\ ServeRequest
    /\ IF ~get_current_admin_user(current_admin)
       THEN /\ reply' = Response(current_admin, "toggle_admin_status", 403, request, <<>>)
            /\ UNCHANGED users
       ELSE IF user_id = current_admin
       THEN /\ reply' = Response(current_admin, "toggle_admin_status", 400, request, <<>>)
            /\ UNCHANGED users
       ELSE /\ users' = [users EXCEPT ![user_id].is_admin = ~@]
            /\ reply' = Response(current_admin, "toggle_admin_status", 200, request, <<>>)
    /\ UNCHANGED query_logs

\* UserUpdate.is_admin: Optional[bool] = None
UserUpdates == {NoValue, "True", "False"}

\* PUT /admin/users/{user_id}
update_user(current_admin, user_id, is_admin) ==
    LET request == [NoRequest EXCEPT !.user_id = user_id, !.is_admin = is_admin] IN
    /\ ServeRequest
    /\ IF ~get_current_admin_user(current_admin)
       THEN /\ reply' = Response(current_admin, "update_user", 403, request, <<>>)
            /\ UNCHANGED users
       ELSE /\ users' = IF is_admin # NoValue
                        THEN [users EXCEPT ![user_id].is_admin = (is_admin = "True")]
                        ELSE users
            /\ reply' = Response(current_admin, "update_user", 200, request, <<>>)
    /\ UNCHANGED query_logs

\* Chunk.created_at defaults to the time of the insert; the rows of a run are
\* inserted in the order of their chunk numbers and the runs one after another
CreatedBefore(c1, c2) ==
    \/ c1.id[1] < c2.id[1]
    \/ c1.id[1] = c2.id[1] /\ c1.id[2] < c2.id[2]

\* ORDER BY c.created_at DESC
RECURSIVE OrderByCreatedAtDesc(_)
OrderByCreatedAtDesc(rows) ==
    IF rows = {} THEN <<>>
    ELSE LET latest == CHOOSE c \in rows : \A x \in rows \ {c} : CreatedBefore(x, c) IN
         <<latest>> \o OrderByCreatedAtDesc(rows \ {latest})

\* ORDER BY chunk_number
RECURSIVE OrderByChunkNumber(_)
OrderByChunkNumber(rows) ==
    IF rows = {} THEN <<>>
    ELSE LET lowest == CHOOSE c \in rows : \A x \in rows : c.chunk_number <= x.chunk_number IN
         <<lowest>> \o OrderByChunkNumber(rows \ {lowest})

\* LIMIT :limit
NoLimit(rows, limit) == rows
Limit(rows, limit) == SubSeq(rows, 1, IF limit < Len(rows) THEN limit ELSE Len(rows))

\* the chunk as a response body shows it; the endpoints other than POST /query
\* set no similarity
ChunkResponse(c, similarity) ==
    [id |-> c.id, text |-> c.text, file_id |-> c.file_id, similarity |-> similarity]
ChunkResponses(rows, similarity) ==
    [k \in 1..Len(rows) |-> ChunkResponse(rows[k], similarity)]

\* GET /files/{file_id}
get_file_details(current_user, file_id) ==
    /\ ServeRequest
    /\ reply' = IF files[file_id] = NoFile \/ Owner(file_id) # current_user
                THEN Response(current_user, "get_file_details", 404, NoRequest, <<>>)
                ELSE Response(current_user, "get_file_details", 200, NoRequest,
                         ChunkResponses(OrderByChunkNumber(
                             {c \in chunks : c.file_id = file_id}), NoValue))
    /\ UNCHANGED <<users, query_logs>>

\* an id no chunk has
NoSuchChunk == <<0, 0>>

\* GET /chunks/{chunk_id}
get_chunk(current_user, chunk_id) ==
    LET found == {c \in chunks : c.id = chunk_id} IN
    /\ ServeRequest
    /\ reply' = IF found = {}
                THEN Response(current_user, "get_chunk", 404, NoRequest, <<>>)
                ELSE LET chunk == CHOOSE c \in found : TRUE IN
                     IF \/ files[chunk.file_id] = NoFile
                        \/ ~users[current_user].is_admin
                           /\ Owner(chunk.file_id) # current_user
                     THEN Response(current_user, "get_chunk", 403, NoRequest, <<>>)
                     ELSE Response(current_user, "get_chunk", 200, NoRequest,
                                   <<ChunkResponse(chunk, NoValue)>>)
    /\ UNCHANGED <<users, query_logs>>

\* GET /chunks/file/{file_id}
get_file_chunks(current_user, file_id) ==
    /\ ServeRequest
    /\ reply' = IF files[file_id] = NoFile
                THEN Response(current_user, "get_file_chunks", 404, NoRequest, <<>>)
                ELSE IF ~users[current_user].is_admin /\ Owner(file_id) # current_user
                THEN Response(current_user, "get_file_chunks", 403, NoRequest, <<>>)
                ELSE Response(current_user, "get_file_chunks", 200, NoRequest,
                         ChunkResponses(OrderByChunkNumber(
                             {c \in chunks : c.file_id = file_id}), NoValue))
    /\ UNCHANGED <<users, query_logs>>

\* query texts and limits of the requests
Queries == {<<>>, <<" ">>, <<"a">>, <<" ", "a">>}
Limits == 0..MaxLimit

\* similarity = 0.5
DefaultSimilarity == "0.5"

\* WHERE f.user_id = :user_id OR :is_admin = TRUE
OwnOrAdmin(current_user, c) ==
    \/ Owner(c.file_id) = current_user
    \/ users[current_user].is_admin

\* How the embedding call of the query can go: the provider's flag and, when
\* the service is called, whether the call succeeds.
QueryEmbeddings(query) ==
    {<<TRUE, "not called">>} \cup
    IF strip(query) = <<>> THEN {<<FALSE, "not called">>}
    ELSE {<<FALSE, "ok">>, <<FALSE, "fail">>}

\* POST /query
query_documents(current_user, query, limit, how) ==
    LET query_embedding == get_embedding(FreshGenerator, query, how[1], how[2]).result
        request == [NoRequest EXCEPT !.query = query, !.limit = limit]
        results == Limit(OrderByCreatedAtDesc(
                       {c \in chunks : /\ files[c.file_id] # NoFile
                                       /\ OwnOrAdmin(current_user, c)}), limit)
        relevant_chunk_ids == [k \in 1..Len(results) |-> results[k].id] IN
    /\ ServeRequest
    /\ Len(query_logs) < MaxQueries
    /\ IF query_embedding = None
       THEN /\ reply' = Response(current_user, "query_documents", 500, request, <<>>)
            /\ UNCHANGED query_logs
       ELSE /\ query_logs' = Append(query_logs,
                                 [user_id |-> current_user,
                                  relevant_chunk_ids |-> relevant_chunk_ids])
            /\ reply' = Response(current_user, "query_documents", 200, request,
                                 ChunkResponses(results, DefaultSimilarity))
    /\ UNCHANGED users

\* the rows of the caller in table query_logs, latest first
RECURSIVE OrderByTimestampDesc(_, _)
OrderByTimestampDesc(logs, user_id) ==
    IF logs = <<>> THEN <<>>
    ELSE LET earlier == OrderByTimestampDesc(SubSeq(logs, 1, Len(logs) - 1), user_id) IN
         IF logs[Len(logs)].user_id = user_id
         THEN <<logs[Len(logs)]>> \o earlier
         ELSE earlier

\* the chunk rows of the ids that still exist, in the order of the ids
RECURSIVE LoadChunks(_)
LoadChunks(chunk_ids) ==
    IF chunk_ids = <<>> THEN <<>>
    ELSE LET found == {c \in chunks : c.id = Head(chunk_ids)} IN
         (IF found = {} THEN <<>> ELSE <<CHOOSE c \in found : TRUE>>)
             \o LoadChunks(Tail(chunk_ids))

\* the chunks of the logged queries, one query after the other
RECURSIVE ChunksOfQueries(_)
ChunksOfQueries(logs) ==
    IF logs = <<>> THEN <<>>
    ELSE LoadChunks(Head(logs).relevant_chunk_ids) \o ChunksOfQueries(Tail(logs))

\* GET /query/recent
get_recent_queries(current_user, limit) ==
    LET recent_queries == Limit(OrderByTimestampDesc(query_logs, current_user), limit)
        request == [NoRequest EXCEPT !.limit = limit] IN
    /\ ServeRequest
    /\ reply' = Response(current_user, "get_recent_queries", 200, request,
                         ChunkResponses(ChunksOfQueries(recent_queries), NoValue))
    /\ UNCHANGED <<users, query_logs>>

NextAccess ==
    \/ \E a \in Users, u \in Users : toggle_admin_status(a, u)
    \/ \E a \in Users, u \in Users, v \in UserUpdates : update_user(a, u, v)
    \/ \E u \in Users, d \in Docs : get_file_details(u, d)
    \/ \E u \in Users, id \in {c.id : c \in chunks} \cup {NoSuchChunk} : get_chunk(u, id)
    \/ \E u \in Users, d \in Docs : get_file_chunks(u, d)
    \/ \E u \in Users, q \in Queries, n \in Limits :
          \E how \in QueryEmbeddings(q) : query_documents(u, q, n, how)
    \/ \E u \in Users, n \in Limits : get_recent_queries(u, n)

SpecAccess == InitAccess /\ [][NextAccess]_vars


(***************************************************************************)
(* Properties of the accounts and of read access.                          *)
(***************************************************************************)
\* the request asks to take the admin right from its own caller
RevokesOwnAdmin(r) ==
    /\ r.request.user_id = r.to
    /\ \/ r.endpoint = "toggle_admin_status"
       \/ r.endpoint = "update_user" /\ r.request.is_admin = "False"

\* C27: no admin API call lets an admin change their own is_admin flag from
\* true to false: the flag of A never goes from true to false in a request
\* made by A, and every request by admin A that would revoke A's own admin
\* status is answered with 400 and leaves A's user record unchanged.
C27_NoSelfRevocation ==
    [][\A a \in Users :
          /\ (users[a].is_admin /\ ~users'[a].is_admin) => reply'.to # a
          /\ (/\ users[a].is_admin
              /\ reply'.to = a
              /\ RevokesOwnAdmin(reply')
              /\ (reply' # reply \/ users' # users))
                 => (reply'.code = 400 /\ users'[a] = users[a])]_vars


\* the endpoints that return chunk text
TextEndpoints == {"get_file_details", "get_chunk", "get_file_chunks",
                  "query_documents", "get_recent_queries"}

\* C28: a user who is not an admin at the time of the request never receives
\* the text of a chunk of a file owned by another user, through GET /files/{id},
\* GET /chunks/{id}, GET /chunks/file/{id}, POST /query or GET /query/recent,
\* whatever admin rights were granted and revoked before.
C28_NoTextOfOthers ==
    (/\ reply.endpoint \in TextEndpoints
     /\ reply.code = 200
     /\ ~reply.is_admin)
        => \A k \in DOMAIN reply.chunks : Owner(reply.chunks[k].file_id) = reply.to


\* the step answers a POST /query request
QueryAnswered ==
    /\ reply'.endpoint = "query_documents"
    /\ (reply' # reply \/ query_logs' # query_logs)

\* `body` is what a recency-ordered scan gives `caller` for `limit`: chunks the
\* caller may see (all of them for an admin, else those of the caller's own
\* files), each once and with similarity 0.5, later created ones first, none
\* left out that is later than one returned, and `limit` of them unless
\* there are fewer.
IsRecencyScan(body, caller, limit) ==
    LET visible == {c \in chunks : users[caller].is_admin \/ Owner(c.file_id) = caller}
        returned == {body[k].id : k \in DOMAIN body} IN
    /\ Len(body) <= limit
    /\ Len(body) < limit => Len(body) = Cardinality(visible)
    /\ \A k \in DOMAIN body :
          /\ \E c \in visible : /\ c.id = body[k].id
                                /\ c.text = body[k].text
                                /\ c.file_id = body[k].file_id
          /\ body[k].similarity = "0.5"
          /\ \A j \in 1..(k - 1) : CreatedBefore(body[k], body[j])
    /\ \A c \in visible : c.id \notin returned =>
          \A k \in DOMAIN body : CreatedBefore(c, body[k])

\* C30 as stated: the result of POST /query does not depend on the query text;
\* for every non-empty query the response is the recency-ordered scan for the
\* caller and the limit, each chunk with similarity exactly 0.5.
C30_AnyNonEmptyQuery ==
    [][(QueryAnswered /\ reply'.request.query # <<>>)
          => /\ reply'.code = 200
             /\ IsRecencyScan(reply'.chunks, reply'.to, reply'.request.limit)]_vars

\* C30, amended: the result of POST /query does not depend on the query text
\* as long as the text is neither empty nor whitespace-only; for every such
\* query the response is the recency-ordered scan for the caller and the
\* limit, each chunk with similarity exactly 0.5, so two such queries with
\* the same limit on the same database state get the same chunks in the same
\* order.  An empty or whitespace-only query is answered with 500.
C30_AnyQueryWithText ==
    [][QueryAnswered
          => IF WhitespaceOnly(reply'.request.query)
             THEN reply'.code = 500 /\ reply'.chunks = <<>>
             ELSE /\ reply'.code = 200
                  /\ IsRecencyScan(reply'.chunks, reply'.to, reply'.request.limit)]_vars

\* a query with text, answered to a user without admin right who owns more
\* chunks than the limit of the request
C30_Witness ==
    /\ reply.endpoint = "query_documents"
    /\ reply.code = 200
    /\ ~reply.is_admin
    /\ ~WhitespaceOnly(reply.request.query)
    /\ reply.request.limit >= 1
    /\ Len(reply.chunks) = reply.request.limit
    /\ Cardinality({c \in chunks : Owner(c.file_id) = reply.to}) > reply.request.limit
    /\ Cardinality(chunks) > Cardinality({c \in chunks : Owner(c.file_id) = reply.to})


(***************************************************************************)
(* The upload directory.  POST /upload stores the bytes under              *)
(* uploads/<timestamp>_<filename>, the timestamp being the server's local  *)
(* time to the second, and keeps that path in the file row; DELETE         *)
(* /files/{file_id} removes the stored file of the row it deleted.         *)
(***************************************************************************)
MaxSeconds == 1       \* seconds that pass in one behaviour

\* file.filename of the upload: a name chosen by the client and the extension
Names == {"report", "notes"}
NoPath == <<>>

\* f"{timestamp}_{file.filename}" under UPLOAD_DIR
unique_filename(timestamp, name, ext) == <<timestamp, name, ext>>

\* the stored files at a path, and the directory without them
StoredAt(path) == {f \in uploads_dir : f.path = path}

InitStorage ==
    /\ InitPipeline(TwoDocs, OneSlot)
    /\ ProviderNotTracked
    /\ AccessNotTracked
    /\ file_path = [d \in TwoDocs |-> NoPath]
    /\ uploads_dir = {}
    /\ clock = 0

\* the clock reaches the next second
Tick ==
    /\ clock < MaxSeconds
    /\ clock' = clock + 1
    /\ UNCHANGED <<file_path, uploads_dir>>
    /\ UNCHANGED pipeline_vars
    /\ UNCHANGED provider_vars
    /\ UNCHANGED access_vars

\* POST /upload with the stored file: open(file_path, "wb") replaces what is
\* stored at the path
upload_file_to_disk(s, d, u, name) ==
    LET path == unique_filename(clock, name, u.ext) IN
    /\ AddFile(s, d, u)
    /\ uploads_dir' = (uploads_dir \ StoredAt(path)) \cup {[path |-> path, bytes_of |-> d]}
    /\ file_path' = [file_path EXCEPT ![d] = path]
    /\ UNCHANGED clock
    /\ UNCHANGED provider_vars
    /\ UNCHANGED access_vars

\* DELETE /files/{file_id} with the stored file.  The handler reads
\* file.file_path from the row it has deleted and committed, inside a try
\* block that swallows every exception: the stored file is removed or stays.
RemoveOutcomes == {"removed", "kept"}
delete_file_from_disk(s, d, outcome) ==
    /\ DeleteRows(s, d)
    /\ IF ForeignKeyViolated(EmptyTx, ChunkIdsOf(EmptyTx, d))
       THEN UNCHANGED <<file_path, uploads_dir>>
       ELSE /\ file_path' = [file_path EXCEPT ![d] = NoPath]
            /\ uploads_dir' = IF outcome = "removed"
                              THEN uploads_dir \ StoredAt(file_path[d])
                              ELSE uploads_dir
    /\ UNCHANGED clock
    /\ UNCHANGED provider_vars
    /\ UNCHANGED access_vars

\* the uploads of this specification: a text file that gets a chunk and an
\* embedding, and a PDF file without text
StorageUploads == {u \in Uploads : /\ u.disk = "ok"
                                   /\ u.ext \in {".txt", ".pdf"}
                                   /\ u.text \in {<<>>, <<"hello", "world">>}}

NextStorage ==
    \/ Tick
    \/ \E s \in Slots, d \in Docs, u \in StorageUploads, name \in Names :
          upload_file_to_disk(s, d, u, name)
    \/ \E s \in Slots, d \in Docs, o \in RemoveOutcomes : delete_file_from_disk(s, d, o)
    \/ \E s \in Slots : PfQuery(s)
    \/ \E s \in Slots : PfSetProcessing(s)
    \/ \E s \in Slots : PfDeleteExisting(s)
    \/ \E s \in Slots : PfExtract(s, Libs)
    \/ \E s \in Slots : PfChunk(s)
    \/ \E s \in Slots : PfAddChunk(s)
    \/ \E s \in Slots : PfEmbed(s, "vector")
    \/ \E s \in Slots : PfCommit(s)
    \/ \E s \in Slots : PfSetEmbedded(s)

SpecStorage == InitStorage /\ [][NextStorage]_vars

\* C29: every upload gets a storage location of its own: no two file rows
\* share a file_path, and the stored file of every document is in the upload
\* directory with the bytes uploaded for it, whatever is uploaded or deleted
\* meanwhile (two uploads of one filename within one second included).
C29_UniqueStorage ==
    /\ \A d1 \in Docs, d2 \in Docs :
          (d1 # d2 /\ files[d1] # NoFile /\ files[d2] # NoFile)
              => file_path[d1] # file_path[d2]
    /\ \A d \in Docs :
          files[d] # NoFile => [path |-> file_path[d], bytes_of |-> d] \in uploads_dir

====
